---- MODULE Spec2Model ----
(***************************************************************************)
(* Model of poac's lockfile subsystem (include/poac/data/lockfile.hpp):    *)
(* is_outdated, convert_to_lock, overwrite, generate, convert_to_deps and  *)
(* read, together with the two files they touch (poac.lock, poac.toml).    *)
(***************************************************************************)
EXTENDS Integers, Sequences, FiniteSets, TLC

VARIABLES lockfile, manifest, now, ret, written, deps, lock, prev_lock, restored

vars == <<lockfile, manifest, now, ret, written, deps, lock, prev_lock, restored>>
fsvars == <<lockfile, manifest, now, ret, written>>
convvars == <<deps, lock, prev_lock, restored>>

\* ------------------------------------------------------------------ bounds
MaxEdges == 2
MaxTime == 2

\* ------------------------------------------------------------- universes
Packages == { [name |-> "A", version |-> "1.0"], [name |-> "B", version |-> "2.0"] }
DepEdges == { [name |-> "A", version |-> "1.0"], [name |-> "B", version |-> "2.0"] }

lockfile_version == 1
lockfile_header ==
    " This file is automatically generated by Poac.\n# It is not intended for manual editing."

\* std::optional<std::vector<std::pair<name, version>>>
nullopt == [has_value |-> FALSE, value |-> <<>>]
some(v) == [has_value |-> TRUE, value |-> v]

EdgeLists == UNION { [1..n -> DepEdges] : n \in 0..MaxEdges }
InnerDeps == {nullopt} \cup { some(e) : e \in EdgeLists }

\* resolver::unique_deps_t<with_deps>: a map with unique keys, represented by
\* its entries in iteration order.
Entries == [pack : Packages, inner_deps : InnerDeps]
UniqueKeys(g) == \A i, j \in 1..Len(g) : g[i].pack = g[j].pack => i = j
Graphs ==
    { g \in UNION { [1..n -> Entries] : n \in 0..Cardinality(Packages) } : UniqueKeys(g) }

Keys(g) == { g[i].pack : i \in 1..Len(g) }
Lookup(g, k) == (CHOOSE i \in 1..Len(g) : g[i].pack = k)
AsMap(g) == [k \in Keys(g) |-> g[Lookup(g, k)].inner_deps]

\* Every iteration order an unordered map with the entries of g may have.
Orderings(g) ==
    { h \in [1..Len(g) -> { g[i] : i \in 1..Len(g) }] : AsMap(h) = AsMap(g) }

\* ------------------------------------------------------- TOML documents
\* A field of the top-level table: absent, or a value of some TOML type.
AbsentField == [type |-> "absent", int |-> 0, array |-> <<>>]
IntField(n) == [type |-> "integer", int |-> n, array |-> <<>>]
StrField == [type |-> "string", int |-> 0, array |-> <<>>]
ArrayField(a) == [type |-> "array", int |-> 0, array |-> a]

\* The text of poac.lock: whether it is valid TOML, its leading comments and
\* the two fields of the top-level table read() looks at.
EmptyDoc ==
    [syntax |-> "ok", comments |-> <<>>, version |-> AbsentField, package |-> AbsentField]
GarbageDoc ==
    [syntax |-> "bad", comments |-> <<>>, version |-> AbsentField, package |-> AbsentField]

NoFile == [exists |-> FALSE, doc |-> EmptyDoc, mtime |-> 0]
File(d, t) == [exists |-> TRUE, doc |-> d, mtime |-> t]

\* --------------------------------------------------- INTO LOCKFILE
\* Extract name from inner dependencies and drop version.
dependency_names(edges) == [i \in 1..Len(edges) |-> edges[i].name]

\* One package_t per map entry; dependencies stay empty when the entry has no
\* inner dependencies.
lock_package(entry) ==
    [name |-> entry.pack.name,
     version |-> entry.pack.version,
     dependencies |-> IF entry.inner_deps.has_value
                      THEN dependency_names(entry.inner_deps.value)
                      ELSE <<>>]

\* convert_to_lock with the last map entry left out of the package list.
convert_to_lock_drop_last(g) ==
    [comments |-> <<lockfile_header>>,
     version |-> IntField(lockfile_version),
     package |-> ArrayField([i \in 1..(IF Len(g) = 0 THEN 0 ELSE Len(g) - 1) |->
                                lock_package(g[i])])]

\* The TOML value built from lockfile_t{ .package = packages } and the header.
convert_to_lock(g) ==
    [comments |-> <<lockfile_header>>,
     version |-> IntField(lockfile_version),
     package |-> ArrayField([i \in 1..Len(g) |-> lock_package(g[i])])]

\* operator<< on the TOML value: the text that reaches the stream.
Serialize(value) ==
    [syntax |-> "ok", comments |-> value.comments,
     version |-> value.version, package |-> value.package]

\* A stream opened for appending: the new packages follow the old ones.
WriteFile_append(old, text) ==
    [text EXCEPT !.package = ArrayField(old.package.array \o text.package.array)]

\* std::ofstream(path, std::ios::out) truncates: the stream's text replaces
\* whatever the file held.
WriteFile(old, text) == text

\* overwrite(): the file after the call. The stream is never tested, so the
\* outcome of the open and of the write only shows in the file.
overwrite(file, g, io, t) ==
    LET text == Serialize(convert_to_lock(g))
    IN CASE io = "ok" -> File(WriteFile(file.doc, text), t)
         [] io = "open_fails" -> file
         [] io = "write_fails" -> File(EmptyDoc, t)

IOOutcomes == {"ok", "open_fails", "write_fails"}

\* ------------------------------------------------------------ staleness
\* is_outdated comparing with <= instead of <.
is_outdated_le(file, mf) ==
    IF ~file.exists THEN "true"
    ELSE IF ~mf.exists THEN "throw"
    ELSE IF file.mtime <= mf.mtime THEN "true" ELSE "false"

\* "true" / "false", or "throw" when fs::last_write_time finds no manifest.
is_outdated(file, mf) ==
    IF ~file.exists THEN "true"
    ELSE IF ~mf.exists THEN "throw"
    ELSE IF file.mtime < mf.mtime THEN "true" ELSE "false"

\* --------------------------------------------------- FROM LOCKFILE
\* toml::parse: a syntax error throws; comments are discarded.
Parse(doc) ==
    IF doc.syntax # "ok"
    THEN [threw |-> TRUE, what |-> "[error] toml::parse: syntax error",
          value |-> [comments |-> <<>>, version |-> AbsentField, package |-> AbsentField]]
    ELSE [threw |-> FALSE, what |-> "",
          value |-> [comments |-> <<>>, version |-> doc.version, package |-> doc.package]]

\* An extraction that takes a missing or ill-typed field for its default.
Get_lenient(value) ==
    [threw |-> FALSE, what |-> "",
     lock |-> [version |-> value.version.int, package |-> value.package.array]]

\* toml::get<lockfile_t>: find<integer>(v, "version"), then
\* find<vector<package_t>>(v, "package"); a missing key or a wrong type throws.
Get(value) ==
    LET none == [version |-> 0, package |-> <<>>]
    IN CASE value.version.type = "absent" ->
              [threw |-> TRUE, what |-> "[error] key \"version\" not found", lock |-> none]
         [] value.version.type \notin {"absent", "integer"} ->
              [threw |-> TRUE, what |-> "[error] toml::value bad_cast to integer", lock |-> none]
         [] value.version.type = "integer" /\ value.package.type = "absent" ->
              [threw |-> TRUE, what |-> "[error] key \"package\" not found", lock |-> none]
         [] value.version.type = "integer" /\ value.package.type \notin {"absent", "array"} ->
              [threw |-> TRUE, what |-> "[error] toml::value bad_cast to array", lock |-> none]
         [] OTHER ->
              [threw |-> FALSE, what |-> "",
               lock |-> [version |-> value.version.int, package |-> value.package.array]]

\* deps.emplace(key, inner_deps) for every package of the lock, in order; an
\* emplace of a key already present changes nothing. ideps is filled with
\* (name, "") pairs but never stored: inner_deps is std::nullopt at the emplace.
RECURSIVE emplace_all(_, _)
emplace_all(packages, acc) ==
    IF packages = <<>> THEN acc
    ELSE LET package == Head(packages)
             ideps == [i \in 1..Len(package.dependencies) |->
                          [name |-> package.dependencies[i], version |-> ""]]
             inner_deps == nullopt
             key == [name |-> package.name, version |-> package.version]
         IN emplace_all(Tail(packages),
                        IF key \in Keys(acc) THEN acc
                        ELSE Append(acc, [pack |-> key, inner_deps |-> inner_deps]))

convert_to_deps(lk) == emplace_all(lk.package, <<>>)

\* The value of the last call: its kind and what it carries.
Ret(op, kind) ==
    [op |-> op, kind |-> kind, graph |-> <<>>, found |-> 0, message |-> "",
     converted |-> FALSE, io |-> "ok", stale |-> "false", before |-> "absent"]

\* read without the version check.
read_any_version(file) ==
    IF ~file.exists THEN Ret("read", "none")
    ELSE LET parsed == Parse(file.doc)
             got == Get(parsed.value)
         IN IF parsed.threw
            THEN [Ret("read", "FailedToReadLockfile") EXCEPT !.message = parsed.what]
            ELSE IF got.threw
            THEN [Ret("read", "FailedToReadLockfile") EXCEPT !.message = got.what]
            ELSE [Ret("read", "some") EXCEPT !.graph = convert_to_deps(got.lock),
                                             !.converted = TRUE]

\* read taking a missing lock document for an unreadable one.
read_missing_is_error(file) ==
    LET parsed == Parse(file.doc)
        got == Get(parsed.value)
    IN IF ~file.exists \/ parsed.threw
       THEN [Ret("read", "FailedToReadLockfile") EXCEPT !.message = "[error] toml::parse"]
       ELSE IF got.threw
       THEN [Ret("read", "FailedToReadLockfile") EXCEPT !.message = got.what]
       ELSE IF got.lock.version # lockfile_version
       THEN [Ret("read", "InvalidLockfileVersion") EXCEPT !.found = got.lock.version]
       ELSE [Ret("read", "some") EXCEPT !.graph = convert_to_deps(got.lock),
                                        !.converted = TRUE]

\* read(): what it returns for the file as it is, the graph in insertion order.
read(file) ==
    IF ~file.exists THEN Ret("read", "none")
    ELSE LET parsed == Parse(file.doc)
             got == Get(parsed.value)
         IN IF parsed.threw
            THEN [Ret("read", "FailedToReadLockfile") EXCEPT !.message = parsed.what]
            ELSE IF got.threw
            THEN [Ret("read", "FailedToReadLockfile") EXCEPT !.message = got.what]
            ELSE IF got.lock.version # lockfile_version
            THEN [Ret("read", "InvalidLockfileVersion") EXCEPT !.found = got.lock.version]
            ELSE [Ret("read", "some") EXCEPT !.graph = convert_to_deps(got.lock),
                                             !.converted = TRUE]

\* ----------------------------------------------- files and the calls
NoManifest == [exists |-> FALSE, mtime |-> 0]
Unwritten == [by |-> "none", graph |-> <<>>]

\* Lock documents a user (or another tool) can leave in place of poac's own.
HandPackage == [name |-> "A", version |-> "1.0", dependencies |-> <<"B">>]
HandDoc(v, p) == [syntax |-> "ok", comments |-> <<>>, version |-> v, package |-> p]
HandDocs ==
    { GarbageDoc }
    \cup { HandDoc(IntField(n), ArrayField(<<HandPackage>>)) : n \in 0..2 }
    \cup { HandDoc(IntField(2), AbsentField),
           HandDoc(AbsentField, ArrayField(<<HandPackage>>)),
           HandDoc(StrField, ArrayField(<<HandPackage>>)),
           HandDoc(IntField(1), StrField),
           HandDoc(IntField(1),
                   ArrayField(<<HandPackage, [HandPackage EXCEPT !.dependencies = <<>>]>>)) }

\* The graphs the resolver hands to overwrite() and generate() here: the
\* writer passes its argument to convert_to_lock untouched, so a few shapes of
\* inner dependencies (none, one edge, two edges) stand for all of them.
ResolvedInnerDeps ==
    { nullopt,
      some(<<[name |-> "B", version |-> "2.0"]>>),
      some(<<[name |-> "A", version |-> "1.0"], [name |-> "B", version |-> "2.0"]>>) }
Resolved == { g \in Graphs : \A i \in 1..Len(g) : g[i].inner_deps \in ResolvedInnerDeps }

FsInit ==
    /\ lockfile = NoFile
    /\ manifest \in { NoManifest, [exists |-> TRUE, mtime |-> 0] }
    /\ now = 0
    /\ ret = Ret("init", "none")
    /\ written = Unwritten

ConvIdle ==
    /\ deps = <<>>
    /\ lock = [has_value |-> FALSE, source |-> <<>>, value |-> convert_to_lock(<<>>)]
    /\ prev_lock = lock
    /\ restored = [has_value |-> FALSE, graph |-> <<>>]

Init == FsInit /\ ConvIdle

\* How the lock document stood, before a call, against the call's graph.
Before(file, g) ==
    IF ~file.exists THEN "absent"
    ELSE IF file.doc = Serialize(convert_to_lock(g)) THEN "same" ELSE "differs"

\* The ghost `written` records the graph of the last call that wrote the lock.
Wrote(g, io) ==
    CASE io = "ok" -> [by |-> "call", graph |-> g]
      [] io = "open_fails" -> written
      [] io = "write_fails" -> [by |-> "failed", graph |-> <<>>]

IsOutdated ==
    /\ ret' = Ret("is_outdated", is_outdated(lockfile, manifest))
    /\ UNCHANGED <<lockfile, manifest, now, written>>

Overwrite(g, io) ==
    /\ lockfile' = overwrite(lockfile, g, io, now)
    /\ written' = Wrote(g, io)
    /\ ret' = [Ret("overwrite", "success") EXCEPT
                 !.io = io,
                 !.before = Before(lockfile, g)]
    /\ UNCHANGED <<manifest, now>>

\* generate that writes whether or not the lock is outdated.
Generate_always(g, io) ==
    /\ lockfile' = overwrite(lockfile, g, io, now)
    /\ written' = Wrote(g, io)
    /\ ret' = [Ret("generate", "success") EXCEPT
                 !.io = io,
                 !.stale = is_outdated(lockfile, manifest),
                 !.before = Before(lockfile, g)]
    /\ UNCHANGED <<manifest, now>>

Generate(g, io) ==
    LET stale == is_outdated(lockfile, manifest)
        before == Before(lockfile, g)
    IN CASE stale = "throw" ->
              /\ ret' = [Ret("generate", "throw") EXCEPT !.stale = stale, !.before = before]
              /\ UNCHANGED <<lockfile, manifest, now, written>>
         [] stale = "true" ->
              /\ lockfile' = overwrite(lockfile, g, io, now)
              /\ written' = Wrote(g, io)
              /\ ret' = [Ret("generate", "success") EXCEPT
                           !.io = io, !.stale = stale, !.before = before]
              /\ UNCHANGED <<manifest, now>>
         [] stale = "false" ->
              /\ ret' = [Ret("generate", "success") EXCEPT !.stale = stale, !.before = before]
              /\ UNCHANGED <<lockfile, manifest, now, written>>

\* read(): the returned map iterates in some order of its entries.
Read ==
    /\ \E g \in Orderings(read(lockfile).graph) :
          ret' = [read(lockfile) EXCEPT !.graph = g]
    /\ UNCHANGED <<lockfile, manifest, now, written>>

\* The environment: time passes, the manifest is edited, the lock document is
\* edited by hand or removed.
Tick ==
    /\ now < MaxTime
    /\ now' = now + 1
    /\ ret' = Ret("tick", "none")
    /\ UNCHANGED <<lockfile, manifest, written>>

TouchManifest ==
    /\ manifest' = [exists |-> TRUE, mtime |-> now]
    /\ ret' = Ret("touch_manifest", "none")
    /\ UNCHANGED <<lockfile, now, written>>

HandEdit(d) ==
    /\ lockfile' = File(d, now)
    /\ written' = [by |-> "hand", graph |-> <<>>]
    /\ ret' = Ret("hand_edit", "none")
    /\ UNCHANGED <<manifest, now>>

RemoveLock ==
    /\ lockfile.exists
    /\ lockfile' = NoFile
    /\ written' = [by |-> "hand", graph |-> <<>>]
    /\ ret' = Ret("remove_lock", "none")
    /\ UNCHANGED <<manifest, now>>

Next ==
    \/ IsOutdated /\ UNCHANGED convvars
    \/ (\E g \in Resolved, io \in IOOutcomes : Overwrite(g, io)) /\ UNCHANGED convvars
    \/ (\E g \in Resolved, io \in IOOutcomes : Generate(g, io)) /\ UNCHANGED convvars
    \/ Read /\ UNCHANGED convvars
    \/ Tick /\ UNCHANGED convvars
    \/ TouchManifest /\ UNCHANGED convvars
    \/ (\E d \in HandDocs : HandEdit(d)) /\ UNCHANGED convvars
    \/ RemoveLock /\ UNCHANGED convvars

Spec == Init /\ [][Next]_vars

\* ------------------------------------------- the conversions on their own
FsIdle ==
    /\ lockfile = NoFile
    /\ manifest = NoManifest
    /\ now = 0
    /\ ret = Ret("init", "none")
    /\ written = Unwritten

ConvInit ==
    /\ FsIdle
    /\ deps \in Graphs
    /\ lock = [has_value |-> FALSE, source |-> <<>>, value |-> convert_to_lock(<<>>)]
    /\ prev_lock = lock
    /\ restored = [has_value |-> FALSE, graph |-> <<>>]

\* An equal map built again (another run, another insertion order, a rehash)
\* iterates in any order of the same entries.
Rehash ==
    /\ \E h \in Orderings(deps) : h # deps /\ deps' = h
    /\ UNCHANGED <<lock, prev_lock, restored>>

ConvertToLock ==
    /\ prev_lock' = lock
    /\ lock' = [has_value |-> TRUE, source |-> deps, value |-> convert_to_lock(deps)]
    /\ restored' = [has_value |-> FALSE, graph |-> <<>>]
    /\ UNCHANGED deps

\* convert_to_deps applied to the lockfile_t of the last conversion.
ConvertToDeps ==
    /\ lock.has_value
    /\ ~Get(lock.value).threw
    /\ \E g \in Orderings(convert_to_deps(Get(lock.value).lock)) :
          restored' = [has_value |-> TRUE, graph |-> g]
    /\ UNCHANGED <<deps, lock, prev_lock>>

ConvNext ==
    \/ Rehash /\ UNCHANGED fsvars
    \/ ConvertToLock /\ UNCHANGED fsvars
    \/ ConvertToDeps /\ UNCHANGED fsvars

SpecConv == ConvInit /\ [][ConvNext]_vars

\* ------------------------------------------------------------- claims
NameSet(inner) ==
    IF inner.has_value THEN { inner.value[i].name : i \in 1..Len(inner.value) } ELSE {}

\* C1: round trip: g' = convert_to_deps(convert_to_lock(g)) has the keys of g,
\* for every key the set of dependency names of g, and "" as the version of
\* every edge.
RoundTripNames ==
    restored.has_value =>
        LET g == lock.source
            h == restored.graph
        IN /\ Keys(h) = Keys(g)
           /\ \A k \in Keys(g) : NameSet(AsMap(h)[k]) = NameSet(AsMap(g)[k])
           /\ \A i \in 1..Len(h) : \A j \in 1..Len(h[i].inner_deps.value) :
                  h[i].inner_deps.value[j].version = ""

BothExist == lockfile.exists /\ manifest.exists

\* C2: is_outdated is true when no lock document exists; when both files exist
\* it is true exactly when the lock's mtime is strictly earlier than the
\* manifest's, whatever the lock document holds.
IsOutdatedContract ==
    ret.op = "is_outdated" =>
        /\ ~lockfile.exists => ret.kind = "true"
        /\ BothExist => ret.kind = (IF lockfile.mtime < manifest.mtime THEN "true" ELSE "false")

IsOutdatedWitness ==
    /\ ret.op = "is_outdated"
    /\ BothExist
    /\ lockfile.mtime = manifest.mtime
    /\ lockfile.mtime > 0
    /\ lockfile.doc \in HandDocs
    /\ ret.kind = "false"

\* C3: a generate that finds the lock document present with mtime >= the
\* manifest's returns success and leaves the document and its mtime as they
\* were, for every graph it is given.
NoOpFreshness ==
    [][(ret'.op = "generate" /\ BothExist /\ lockfile.mtime >= manifest.mtime)
          => (ret'.kind = "success" /\ lockfile' = lockfile)]_vars

NoOpFreshnessWitness ==
    /\ ret.op = "generate"
    /\ ret.kind = "success"
    /\ BothExist
    /\ lockfile.mtime >= manifest.mtime
    /\ written.by = "call"
    /\ lockfile.doc # Serialize(convert_to_lock(<<>>))
    /\ ret.stale = "false"
    /\ ret.before = "differs"

IntegerVersionOtherThanOne ==
    /\ lockfile.exists
    /\ lockfile.doc.syntax = "ok"
    /\ lockfile.doc.version.type = "integer"
    /\ lockfile.doc.version.int # lockfile_version

\* C4 as stated: read of a document that parses and whose version is an
\* integer v # 1 fails with InvalidLockfileVersion carrying v, without
\* converting; a graph is returned only for version 1.
VersionGateAnyDocument ==
    ret.op = "read" =>
        /\ IntegerVersionOtherThanOne =>
              /\ ret.kind = "InvalidLockfileVersion"
              /\ ret.found = lockfile.doc.version.int
              /\ ~ret.converted
        /\ ret.kind = "some" => lockfile.doc.version = IntField(lockfile_version)

\* C4 amended: the same, for a document whose package field is present as an
\* array of package tables, so that the extraction of lockfile_t succeeds.
VersionGate ==
    ret.op = "read" =>
        /\ (IntegerVersionOtherThanOne /\ lockfile.doc.package.type = "array") =>
              /\ ret.kind = "InvalidLockfileVersion"
              /\ ret.found = lockfile.doc.version.int
              /\ ~ret.converted
        /\ ret.kind = "some" => lockfile.doc.version = IntField(lockfile_version)

VersionGateWitness ==
    /\ ret.op = "read"
    /\ IntegerVersionOtherThanOne
    /\ lockfile.doc.package.type = "array"
    /\ ret.kind = "InvalidLockfileVersion"
    /\ ret.found = 2

\* C5: read succeeds with None when no lock document exists, and only then:
\* with a lock document it returns Some(graph) or an error.
ReadNoneIffAbsent ==
    ret.op = "read" =>
        /\ (ret.kind = "none") <=> ~lockfile.exists
        /\ lockfile.exists =>
              ret.kind \in {"some", "InvalidLockfileVersion", "FailedToReadLockfile"}

ReadNoneWitness ==
    /\ ret.op = "read"
    /\ ~lockfile.exists
    /\ ret.kind = "none"

Malformed ==
    /\ lockfile.exists
    /\ \/ lockfile.doc.syntax # "ok"
       \/ lockfile.doc.version.type # "integer"
       \/ lockfile.doc.package.type # "array"

\* C6: read of a lock document that does not parse, or lacks the package
\* field, or has a version that is no integer, returns FailedToReadLockfile
\* with a non-empty message; it neither throws nor yields a graph.
MalformedInput ==
    (ret.op = "read" /\ Malformed) =>
        /\ ret.kind = "FailedToReadLockfile"
        /\ ret.message # ""
        /\ ret.graph = <<>>
        /\ ~ret.converted

MalformedInputWitness ==
    /\ ret.op = "read"
    /\ lockfile.exists
    /\ lockfile.doc.syntax = "ok"
    /\ lockfile.doc.version.type = "integer"
    /\ lockfile.doc.package.type = "absent"
    /\ ret.kind = "FailedToReadLockfile"

\* C7: an overwrite (or a generate that found the lock stale) whose open or
\* write failed does not return success.
WriteFailuresReported ==
    (/\ ret.op \in {"overwrite", "generate"}
     /\ ret.op = "generate" => ret.stale = "true"
     /\ ret.io # "ok")
        => ret.kind # "success"

\* C8: two conversions of equal graphs emit the same sequence of package
\* records.
DeterministicOrder ==
    (lock.has_value /\ prev_lock.has_value /\ AsMap(lock.source) = AsMap(prev_lock.source))
        => lock.value.package = prev_lock.value.package

RecordsOf(g, doc, k) ==
    { i \in 1..Len(doc.package.array) :
        /\ doc.package.array[i].name = k.name
        /\ doc.package.array[i].version = k.version }

\* C9: convert_to_lock(g) has version 1 and exactly one package record per key
\* of g, with the key's name and version and the names of the key's edges in
\* edge order (none when the edge list is absent), and nothing else.
ConvertToLockContract ==
    lock.has_value =>
        LET g == lock.source
            doc == lock.value
        IN /\ doc.version = IntField(1)
           /\ doc.package.type = "array"
           /\ Len(doc.package.array) = Cardinality(Keys(g))
           /\ \A i \in 1..Len(doc.package.array) :
                 /\ DOMAIN doc.package.array[i] = {"name", "version", "dependencies"}
                 /\ [name |-> doc.package.array[i].name,
                     version |-> doc.package.array[i].version] \in Keys(g)
           /\ \A k \in Keys(g) :
                 /\ Cardinality(RecordsOf(g, doc, k)) = 1
                 /\ \A i \in RecordsOf(g, doc, k) :
                       LET names == doc.package.array[i].dependencies
                           edges == AsMap(g)[k]
                       IN /\ Len(names) = Len(edges.value)
                          /\ \A j \in 1..Len(names) :
                                /\ names[j] = edges.value[j].name
                                /\ names[j] \notin { e.version : e \in DepEdges }

ConvertToLockWitness ==
    /\ lock.has_value
    /\ Len(lock.source) = 2
    /\ \E i, j \in 1..2 :
          /\ ~lock.source[i].inner_deps.has_value
          /\ Len(lock.source[j].inner_deps.value) = 2
          /\ lock.source[j].inner_deps.value[1].name # lock.source[j].inner_deps.value[2].name

\* C10: whenever the last writer of the lock document is an overwrite or a
\* generate whose I/O succeeded, the document is convert_to_lock of that call's
\* graph, serialized, and nothing else; and read leaves the document alone.
WholesaleOverwrite ==
    /\ [](written.by = "call" =>
            /\ lockfile.exists
            /\ lockfile.doc = Serialize(convert_to_lock(written.graph)))
    /\ [][ret'.op = "read" => lockfile' = lockfile]_vars

WholesaleOverwriteWitness ==
    /\ ret.op = "generate"
    /\ ret.stale = "true"
    /\ ret.io = "ok"
    /\ ret.before = "differs"
    /\ written.by = "call"
    /\ Len(written.graph) = 1
    /\ lockfile.mtime = MaxTime
    /\ manifest.mtime = MaxTime

====
